---- MODULE Spec2Model ----
(***************************************************************************)
(* Validation-token state machine and the authentication flows built on   *)
(* it (services/userService.js, models/validation.js, the user            *)
(* controllers).                                                           *)
(*                                                                         *)
(* The store is the set of validation rows plus the user rows.  A request  *)
(* runs in a slot of Procs; every `await` of a handler that separates a    *)
(* read of the store from a later write of it is a step boundary, so two   *)
(* requests interleave exactly where the Node.js event loop lets them.     *)
(*                                                                         *)
(* Opaque strings are integers in disjoint ranges:                         *)
(*   64-hex strings of crypto.randomBytes(32)  : 1, 2, 3, ...  (every draw *)
(*       is fresh: row i draws 2i-1 for `token` and 2i for `validationId`) *)
(*   16-hex user ids                           : the members of Users      *)
(*   6-digit codes of Math.random              : CodeBase, CodeBase+1, ... *)
(*       (a draw may repeat an earlier one)                                *)
(* Time is counted in minutes.                                             *)
(***************************************************************************)
EXTENDS Integers, FiniteSets, TLC

VARIABLES
  users,        \* the users table: userId -> row (or NoUser)
  validations,  \* the validations table: a set of rows
  nextId,       \* the auto-increment id of the last validation row inserted
  now,          \* the clock, in minutes
  ticks,        \* how often the clock has advanced
  procs,        \* the requests in flight: slot -> position and instance held
  resp,         \* the response (and mail) sent by the last step (NoResp if none)
  passed,       \* per row id: verify calls that got past the ceiling check
  wins,         \* per row id: success results sent for the row
  locked,       \* row ids whose stored attempts has equalled maxAttempts
  creds,        \* the JWT credentials signed so far
  clients,      \* the clients table: clientId -> row (or NoClient)
  sites,        \* the sites table: a set of rows
  nextSiteId,   \* the number of site rows inserted so far
  siteProcs,    \* the site requests in flight: slot -> position and instances held
  created,      \* per clientId: site rows inserted for the client
  deleted       \* per clientId: site rows of the client removed

authVars == <<users, validations, nextId, now, ticks, procs, passed, wins, locked,
              creds>>
siteVars == <<clients, sites, nextSiteId, siteProcs, created, deleted>>
vars == <<users, validations, nextId, now, ticks, procs, resp, passed, wins, locked,
          creds, clients, sites, nextSiteId, siteProcs, created, deleted>>

(* ------------------------------ bounds -------------------------------- *)
MaxRows == 2
MaxTicks == 1
NumCodes == 2
MaxCeiling == 5
MaxCreds == 6
MaxSites == 2

(* ------------------------- program constants -------------------------- *)
CodeBase == 100000
DefaultMaxAttempts == 3

Users == {1001, 1002}
Passwords == {"pwA", "pwB"}
Procs == {"p1", "p2"}
Types == {"email_verification", "login_verification", "password_reset"}
\* clock advances used by the model: just past one hour, just past one day
TimeSteps == {60 + 1, 24 * 60 + 1}

NULL == 0 - 1
NoRow == [id |-> 0]
NoUser == [exists |-> FALSE]
Codes == CodeBase .. (CodeBase + NumCodes - 1)
\* inserts kept for regenerations: one for each request that can run beside
\* another
MaxRegens == Cardinality(Procs) - 1
RowIds == 1 .. (MaxRows + MaxRegens)

(* ------------------------- models/validation.js ----------------------- *)
\* validation.prototype.generateToken: a 6-digit code for the code kinds,
\* 32 random bytes in hex otherwise (login_verification takes the default).
generateToken(type, code, id) ==
  CASE type = "email_verification" -> code
    [] type \in {"phone_verification", "two_factor"} -> code
    [] OTHER -> 2 * id - 1

\* validation.prototype.validationToken
validationToken(id) == 2 * id

\* validation.prototype.getExpirationTime
getExpirationTime(type, t) ==
  CASE type = "email_verification" -> t + 24 * 60
    [] type = "password_reset" -> t + 1 * 60
    [] type = "email_change" -> t + 2 * 60
    [] type = "phone_verification" -> t + 10
    [] type = "two_factor" -> t + 5
    [] type = "account_recovery" -> t + 48 * 60
    [] OTHER -> t + 24 * 60

\* validation.prototype.getMaxAttempts
getMaxAttempts(type) ==
  CASE type \in {"phone_verification", "two_factor"} -> 5
    [] type = "password_reset" -> 3
    [] OTHER -> 1

\* Model.build: an attribute left out of create() takes its defaultValue
\* before any hook runs; no caller of create() passes maxAttempts.
BuildDefaults(given) == IF given = NULL THEN DefaultMaxAttempts ELSE given

\* hooks.beforeValidate: fills token, validationId, expiresAt and, only when
\* still undefined or null, maxAttempts.
beforeValidate(id, type, userId, code, t) ==
  LET built == BuildDefaults(NULL)
  IN [id |-> id,
      token |-> generateToken(type, code, id),
      validationId |-> validationToken(id),
      type |-> type,
      userId |-> userId,
      createdAt |-> t,
      expiresAt |-> getExpirationTime(type, t),
      usedAt |-> NULL,
      attempts |-> 0,
      maxAttempts |-> IF built = NULL
                      THEN getMaxAttempts(type) ELSE built]

\* variant: the comparison of isExpired turned round
isExpired_reversed(row, t) == t < row.expiresAt

isExpired(row, t) == t > row.expiresAt

isUsed(row) == row.usedAt # NULL

\* variant: the ceiling compared with <= instead of <
canAttempt_inclusive(row, t) ==
  row.attempts <= row.maxAttempts /\ ~isExpired(row, t) /\ ~isUsed(row)

canAttempt(row, t) ==
  row.attempts < row.maxAttempts /\ ~isExpired(row, t) /\ ~isUsed(row)

\* instance.save(): UPDATE ... SET <changed field> WHERE id = row.id; a row
\* deleted meanwhile is left deleted.
SaveField(rows, id, field, value) ==
  {IF r.id = id THEN [r EXCEPT ![field] = value] ELSE r : r \in rows}

\* incrementAttempts: this.attempts += 1 on the instance, then save().
incrementAttempts(rows, row) == SaveField(rows, row.id, "attempts", row.attempts + 1)

\* markAsUsed: this.usedAt = new Date(), then save().
markAsUsed(rows, row, t) == SaveField(rows, row.id, "usedAt", t)

\* the unique index on `token`
TokenTaken(rows, tok) == \E r \in rows : r.token = tok

(* ------------------------------ queries ------------------------------- *)
Pick(S) == IF S = {} THEN NoRow ELSE CHOOSE r \in S : \A q \in S : r.id <= q.id
Latest(S) == IF S = {} THEN NoRow
             ELSE CHOOSE r \in S : \A q \in S :
                    q.createdAt < r.createdAt \/ (q.createdAt = r.createdAt /\ q.id >= r.id)

FindByValidationId(rows, vid) == Pick({r \in rows : r.validationId = vid})
FindByToken(rows, tok) == Pick({r \in rows : r.token = tok})

\* user.password is stored as its bcrypt hash; authenticate() compares.
Hash(pw) == <<"bcrypt", pw>>
authenticate(user, pw) == user.password = Hash(pw)

(* ----------------------- services/emailService.js --------------------- *)
\* A mail is the set of values rendered into its HTML that come from a token
\* or a user row; the fixed texts (expiresIn, siteName) are left out.
\* The client info (IP address, user agent, device metadata) stored with
\* row i is the opaque value -(i + 1).
metadata(row) == 0 - (row.id + 1)

\* the named parameters a function destructures from the object passed
Destructure(params, names) == [f \in names \cap DOMAIN params |-> params[f]]

\* what a template interpolates
Rendered(params, names) == {params[f] : f \in names \cap DOMAIN params}

\* variant: the login mail also takes the token passed and prints it as a code
sendLoginVerificationEmail_withCode(params) ==
  Rendered(Destructure(params, {"email", "token", "recipientName", "verificationLink"}),
           {"token", "verificationLink"})

\* sendLoginVerificationEmail and EmailTemplate.loginVerificationEmail
sendLoginVerificationEmail(params) ==
  Rendered(Destructure(params, {"email", "recipientName", "expiresIn",
                                "verificationLink", "siteName"}),
           {"verificationLink"})

\* sendVerificationEmail and EmailTemplate.verificationEmail
sendVerificationEmail(params) ==
  Rendered(Destructure(params, {"email", "token", "recipientName", "expiresIn",
                                "verificationLink"}),
           {"recipientName", "verificationLink"})

\* sendPasswordResetEmail and EmailTemplate.passwordResetEmail
sendPasswordResetEmail(params) ==
  Rendered(Destructure(params, {"email", "recipientName", "expiresIn", "resetLink"}),
           {"recipientName", "resetLink"})

(* ------------------------------ requests ------------------------------ *)
Idle == [pc |-> "idle", row |-> NoRow, secret |-> 0, id |-> 0]
NoBody == [success |-> "none"]
NoMail == {}
NoResp == [op |-> "none", id |-> 0, secret |-> 0, code |-> "none", out |-> 0,
           status |-> 0, body |-> NoBody, mail |-> NoMail, tokens |-> {},
           scheme |-> "none", emailSent |-> "none"]

Free(p) == procs[p].pc = "idle"

\* what a step sends: the service result (code, out) and, where the model
\* follows them, the HTTP status and JSON body of the controller, the values
\* rendered into the mail, the <<property, credential>> pairs of the body's
\* data, the scheme of the Authorization header the request carried and the
\* success property of the mailer's result
Reply(op, id, secret, code, out) ==
  [op |-> op, id |-> id, secret |-> secret, code |-> code, out |-> out,
   status |-> 0, body |-> NoBody, mail |-> NoMail, tokens |-> {},
   scheme |-> "none", emailSent |-> "none"]

\* the result of a mailer: it catches every error of the template and of the
\* transport and returns success: false
EmailResult(r, delivered) ==
  [r EXCEPT !.emailSent = IF delivered THEN "true" ELSE "false"]

\* res.status(s).json(obj): JSON.stringify leaves out the properties whose
\* value is undefined
Json(obj) == [f \in {g \in DOMAIN obj : obj[g] # "undefined"} |-> obj[f]]
Http(r, status, obj) == [r EXCEPT !.status = status, !.body = Json(obj)]

\* requests that are past their checks and will still insert a row
Creating == {p \in Procs : procs[p].pc \in {"login_destroy", "login_create",
                                             "regen_destroy", "regen_create",
                                             "forgot_create"}}
CanCreate == nextId + Cardinality(Creating) < MaxRows
\* a regeneration replaces a row it deletes: MaxRegens further inserts are
\* kept for the requests that regenerate
CanRegenerate == nextId + Cardinality(Creating) < MaxRows + MaxRegens

\* Model.create: build, beforeValidate, INSERT with the next auto-increment id
NewRow(type, userId, code) == beforeValidate(nextId + 1, type, userId, code, now)

\* identifiers a client can present: every hex string drawn so far, the
\* user ids and an unknown one (0)
IdInputs == (0 .. 2 * nextId) \cup Users
\* secrets a client can present against a row: the row's own and a wrong one
SecretInputs(row) == IF row = NoRow THEN {0} ELSE {row.token, 0}

Registered(pw, verified) == [exists |-> TRUE, password |-> Hash(pw), isEmailVerified |-> verified]

(* -------------------- models/site.js: Site and Client ----------------- *)
ClientIds == {1, 2}
\* client ids a request can carry: the stored ones and an unknown one (0)
ClientInputs == ClientIds \cup {0}
NoClient == [exists |-> FALSE]
NoSite == [siteId |-> 0]
\* a clients row; websiteCount is NOT NULL with defaultValue 0
Client(clientId, userId, websiteCount) ==
  [exists |-> TRUE, clientId |-> clientId, userId |-> userId,
   websiteCount |-> websiteCount]
SiteIdle == [pc |-> "idle", client |-> NoClient, site |-> NoSite, userId |-> 0]

\* no client and no site stored, no site request in flight
NoClients ==
  /\ clients = [c \in ClientIds |-> NoClient]
  /\ sites = {}
  /\ nextSiteId = 0
  /\ siteProcs = [p \in Procs |-> SiteIdle]
  /\ created = [c \in ClientIds |-> 0]
  /\ deleted = [c \in ClientIds |-> 0]

\* Client.findOne({ where: { clientId, userId } })
ClientFindOne(rows, clientId, userId) ==
  IF clientId \in ClientIds /\ rows[clientId].exists /\ rows[clientId].userId = userId
  THEN rows[clientId]
  ELSE NoClient

\* Site.findOne({ where: { siteId, userId } })
SiteFindOne(rows, siteId, userId) ==
  LET found == {s \in rows : s.siteId = siteId /\ s.userId = userId}
  IN IF found = {} THEN NoSite ELSE CHOOSE s \in found : TRUE

\* site ids a client can present: every id given out so far and an unknown one
SiteInputs == 0 .. nextSiteId

\* site requests that are past their checks and will still insert a row
SitesCreating == {p \in Procs : siteProcs[p].pc = "site_create"}
CanCreateSite == nextSiteId + Cardinality(SitesCreating) < MaxSites

(* ------------------ createSite(siteData, userId) ---------------------- *)
\* the controller's required-field checks, Site.sync, Client.findOne
createSite(p) ==
  /\ siteProcs[p].pc = "idle"
  /\ CanCreateSite
  /\ \E userId \in Users, clientId \in ClientInputs, complete \in BOOLEAN :
       LET client == ClientFindOne(clients, clientId, userId)
       IN IF ~complete
          THEN /\ resp' = Http(Reply("createSite", clientId, 0, "REQUIRED", 0), 400,
                               [success |-> "false"])
               /\ UNCHANGED siteProcs
          ELSE IF client = NoClient
          THEN /\ resp' = Http(Reply("createSite", clientId, 0, "CLIENT_NOT_FOUND", 0),
                               500, [success |-> "false"])
               /\ UNCHANGED siteProcs
          ELSE /\ resp' = NoResp
               /\ siteProcs' = [siteProcs EXCEPT ![p] =
                    [pc |-> "site_create", client |-> client, site |-> NoSite,
                     userId |-> userId]]
  /\ UNCHANGED <<clients, sites, nextSiteId, created, deleted>>
  /\ UNCHANGED authVars

\* await Site.create({...}); a value the model's validators reject throws
createSite_create(p) ==
  /\ siteProcs[p].pc = "site_create"
  /\ \E valid \in BOOLEAN :
       LET client == siteProcs[p].client
           newSite == [siteId |-> nextSiteId + 1, clientId |-> client.clientId,
                       userId |-> siteProcs[p].userId]
       IN IF ~valid
          THEN /\ resp' = Http(Reply("createSite", client.clientId, 0, "VALIDATION", 0),
                               500, [success |-> "false"])
               /\ siteProcs' = [siteProcs EXCEPT ![p] = SiteIdle]
               /\ UNCHANGED <<sites, nextSiteId, created>>
          ELSE /\ resp' = NoResp
               /\ sites' = sites \cup {newSite}
               /\ nextSiteId' = nextSiteId + 1
               /\ created' = [created EXCEPT ![client.clientId] = @ + 1]
               /\ siteProcs' = [siteProcs EXCEPT ![p].pc = "site_save",
                                                 ![p].site = newSite]
  /\ UNCHANGED <<clients, deleted>>
  /\ UNCHANGED authVars

\* client.websiteCount = (client.websiteCount || 0) + 1; await client.save():
\* the UPDATE writes the value computed from the instance read earlier
createSite_save(p) ==
  /\ siteProcs[p].pc = "site_save"
  /\ LET client == siteProcs[p].client
     IN /\ clients' = [clients EXCEPT ![client.clientId].websiteCount =
                                        client.websiteCount + 1]
        /\ resp' = Http(Reply("createSite", siteProcs[p].site.siteId, 0, "CREATED", 0),
                        201, [success |-> "true"])
  /\ siteProcs' = [siteProcs EXCEPT ![p] = SiteIdle]
  /\ UNCHANGED <<sites, nextSiteId, created, deleted>>
  /\ UNCHANGED authVars

(* --------------------- deleteSite(siteId, userId) --------------------- *)
\* Site.findOne
deleteSite(p) ==
  /\ siteProcs[p].pc = "idle"
  /\ \E userId \in Users, siteId \in SiteInputs :
       LET site == SiteFindOne(sites, siteId, userId)
       IN IF site = NoSite
          THEN /\ resp' = Http(Reply("deleteSite", siteId, 0, "NOT_FOUND", 0), 404,
                               [success |-> "false"])
               /\ UNCHANGED siteProcs
          ELSE /\ resp' = NoResp
               /\ siteProcs' = [siteProcs EXCEPT ![p] =
                    [pc |-> "del_client", client |-> NoClient, site |-> site,
                     userId |-> userId]]
  /\ UNCHANGED <<clients, sites, nextSiteId, created, deleted>>
  /\ UNCHANGED authVars

\* Client.findOne({ where: { clientId: site.clientId, userId } })
deleteSite_findClient(p) ==
  /\ siteProcs[p].pc = "del_client"
  /\ siteProcs' = [siteProcs EXCEPT
       ![p].pc = "del_destroy",
       ![p].client = ClientFindOne(clients, siteProcs[p].site.clientId,
                                   siteProcs[p].userId)]
  /\ resp' = NoResp
  /\ UNCHANGED <<clients, sites, nextSiteId, created, deleted>>
  /\ UNCHANGED authVars

\* await site.destroy(): a DELETE by primary key, which removes nothing and
\* does not fail when the row is already gone
deleteSite_destroy(p) ==
  /\ siteProcs[p].pc = "del_destroy"
  /\ LET site == siteProcs[p].site
         client == siteProcs[p].client
     IN /\ sites' = sites \ {site}
        /\ deleted' = IF site \in sites
                      THEN [deleted EXCEPT ![site.clientId] = @ + 1]
                      ELSE deleted
        /\ IF client # NoClient /\ client.websiteCount > 0
           THEN /\ siteProcs' = [siteProcs EXCEPT ![p].pc = "del_save"]
                /\ resp' = NoResp
           ELSE /\ siteProcs' = [siteProcs EXCEPT ![p] = SiteIdle]
                /\ resp' = Http(Reply("deleteSite", site.siteId, 0, "DELETED", 0), 200,
                                [success |-> "true"])
  /\ UNCHANGED <<clients, nextSiteId, created>>
  /\ UNCHANGED authVars

\* client.websiteCount = client.websiteCount - 1; await client.save()
deleteSite_save(p) ==
  /\ siteProcs[p].pc = "del_save"
  /\ LET client == siteProcs[p].client
     IN /\ clients' = [clients EXCEPT ![client.clientId].websiteCount =
                                        client.websiteCount - 1]
        /\ resp' = Http(Reply("deleteSite", siteProcs[p].site.siteId, 0, "DELETED", 0),
                        200, [success |-> "true"])
  /\ siteProcs' = [siteProcs EXCEPT ![p] = SiteIdle]
  /\ UNCHANGED <<sites, nextSiteId, created, deleted>>
  /\ UNCHANGED authVars

\* the empty database
Init ==
  /\ users = [u \in Users |-> NoUser]
  /\ validations = {}
  /\ nextId = 0
  /\ now = 0
  /\ ticks = 0
  /\ procs = [p \in Procs |-> Idle]
  /\ resp = NoResp
  /\ passed = [i \in RowIds |-> 0]
  /\ wins = [i \in RowIds |-> 0]
  /\ locked = {}
  /\ creds = {}
  /\ NoClients

Tick ==
  /\ ticks < MaxTicks
  /\ \E d \in TimeSteps : now' = now + d
  /\ ticks' = ticks + 1
  /\ resp' = NoResp
  /\ UNCHANGED <<users, validations, nextId, procs, passed, wins, locked, creds>>
  /\ UNCHANGED siteVars

(* --------------- verifyValidationToken(validationId, token) ----------- *)
\* variant: the isUsed() check of verifyValidationToken left out
verifyChecks_noUsedCheck(row, t) ==
  IF row = NoRow THEN "NOT_FOUND"
  ELSE IF isExpired(row, t) THEN "EXPIRED"
  ELSE IF ~canAttempt(row, t) THEN "MAX_ATTEMPTS_EXCEEDED"
  ELSE "OK"

\* variant: expiry is looked at after the used and ceiling checks
verifyChecks_expiryLast(row, t) ==
  IF row = NoRow THEN "NOT_FOUND"
  ELSE IF isUsed(row) THEN "ALREADY_USED"
  ELSE IF ~canAttempt(row, t) THEN "MAX_ATTEMPTS_EXCEEDED"
  ELSE IF isExpired(row, t) THEN "EXPIRED"
  ELSE "OK"

\* the checks between findOne and incrementAttempts, in the order of the code
verifyChecks(row, t) ==
  IF row = NoRow THEN "NOT_FOUND"
  ELSE IF isExpired(row, t) THEN "EXPIRED"
  ELSE IF isUsed(row) THEN "ALREADY_USED"
  ELSE IF ~canAttempt(row, t) THEN "MAX_ATTEMPTS_EXCEEDED"
  ELSE "OK"

\* findOne, then the checks
verifyValidationToken(p) ==
  /\ Free(p)
  /\ \E vid \in IdInputs :
       LET row == FindByValidationId(validations, vid)
       IN \E tok \in SecretInputs(row) :
            IF verifyChecks(row, now) # "OK"
            THEN /\ resp' = Reply("verify", vid, tok, verifyChecks(row, now), 0)
                 /\ UNCHANGED procs
            ELSE /\ resp' = NoResp
                 /\ procs' = [procs EXCEPT ![p] =
                      [pc |-> "vvt_incr", row |-> row, secret |-> tok, id |-> vid]]
  /\ UNCHANGED <<users, validations, nextId, now, ticks, passed, wins, locked, creds>>
  /\ UNCHANGED siteVars

\* await incrementAttempts(), then the comparison with the provided token
verifyValidationToken_incrementAttempts(p) ==
  /\ procs[p].pc = "vvt_incr"
  /\ LET rec == procs[p]
         row == [rec.row EXCEPT !.attempts = @ + 1]
     IN /\ validations' = incrementAttempts(validations, rec.row)
        /\ passed' = [passed EXCEPT ![row.id] = @ + 1]
        /\ locked' = locked \cup {r.id : r \in {q \in validations' :
                                                   q.attempts = q.maxAttempts}}
        /\ IF row.token # rec.secret
           THEN /\ resp' = Reply("verify", rec.id, rec.secret, "INVALID_TOKEN",
                                 row.maxAttempts - row.attempts)
                /\ procs' = [procs EXCEPT ![p] = Idle]
           ELSE /\ resp' = NoResp
                /\ procs' = [procs EXCEPT ![p] = [rec EXCEPT !.pc = "vvt_mark", !.row = row]]
  /\ UNCHANGED <<users, nextId, now, ticks, wins, creds>>
  /\ UNCHANGED siteVars

\* await markAsUsed(), then the success result
verifyValidationToken_markAsUsed(p) ==
  /\ procs[p].pc = "vvt_mark"
  /\ LET rec == procs[p]
     IN /\ validations' = markAsUsed(validations, rec.row, now)
        /\ wins' = [wins EXCEPT ![rec.row.id] = @ + 1]
        /\ resp' = Reply("verify", rec.id, rec.secret, "SUCCESS", rec.row.userId)
        /\ procs' = [procs EXCEPT ![p] = Idle]
  /\ UNCHANGED <<users, nextId, now, ticks, passed, locked, creds>>
  /\ UNCHANGED siteVars

(* ------------------- loginUser(email, password) ----------------------- *)
\* variant: the missing account reported with a reason of its own
loginUserFailure_distinct(userExists) ==
  [success |-> "false",
   reason |-> IF userExists THEN "Invalid email or password" ELSE "User not found",
   code |-> "INVALID_CREDENTIALS"]

\* the result loginUser returns when no user has the email (userExists
\* false) and when the password does not match (userExists true)
loginUserFailure(userExists) ==
  IF ~userExists
  THEN [success |-> "false", reason |-> "Invalid email or password",
        code |-> "INVALID_CREDENTIALS"]
  ELSE [success |-> "false", reason |-> "Invalid email or password",
        code |-> "INVALID_CREDENTIALS"]

\* the controller's answer to a failed result
loginUserResponse(r, result) ==
  Http(r, 401, [success |-> "false", error |-> result.reason, code |-> result.code])

\* User.findOne by email, then user.authenticate(password)
loginUser(p) ==
  /\ Free(p)
  /\ CanCreate
  /\ \E u \in Users, pw \in Passwords :
       IF ~users[u].exists \/ ~authenticate(users[u], pw)
       THEN /\ resp' = loginUserResponse(
                         Reply("login", u, 0, loginUserFailure(users[u].exists).code, 0),
                         loginUserFailure(users[u].exists))
            /\ UNCHANGED procs
       ELSE /\ resp' = NoResp
            /\ procs' = [procs EXCEPT ![p] = [Idle EXCEPT !.pc = "login_destroy", !.id = u]]
  /\ UNCHANGED <<users, validations, nextId, now, ticks, passed, wins, locked, creds>>
  /\ UNCHANGED siteVars

\* await Validation.destroy({where: {userId, type: 'login_verification'}})
loginUser_destroy(p) ==
  /\ procs[p].pc = "login_destroy"
  /\ validations' = {r \in validations :
                       ~(r.userId = procs[p].id /\ r.type = "login_verification")}
  /\ procs' = [procs EXCEPT ![p].pc = "login_create"]
  /\ resp' = NoResp
  /\ UNCHANGED <<users, nextId, now, ticks, passed, wins, locked, creds>>
  /\ UNCHANGED siteVars

\* await Validation.create({... type: 'login_verification'}), mail, result
\* variant: a mail that could not be sent undoes the token and fails the call
loginUser_create_rollsBack(p) ==
  /\ procs[p].pc = "login_create"
  /\ \E delivered \in BOOLEAN :
       LET row == NewRow("login_verification", procs[p].id, 0)
           sent == [Reply("login", procs[p].id, 0, "SUCCESS", row.validationId)
                      EXCEPT !.mail = sendLoginVerificationEmail(
                        [email |-> row.userId, recipientName |-> row.userId,
                         verificationLink |-> row.validationId])]
       IN /\ validations' = IF delivered THEN validations \cup {row} ELSE validations
          /\ nextId' = nextId + 1
          /\ resp' = IF delivered THEN EmailResult(sent, TRUE)
                     ELSE EmailResult(Reply("login", procs[p].id, 0, "ERROR", 0), FALSE)
          /\ procs' = [procs EXCEPT ![p] = Idle]
  /\ UNCHANGED <<users, now, ticks, passed, wins, locked, creds>>
  /\ UNCHANGED siteVars

loginUser_create(p) ==
  /\ procs[p].pc = "login_create"
  /\ \E delivered \in BOOLEAN :
       LET row == NewRow("login_verification", procs[p].id, 0)
           sent == [Reply("login", procs[p].id, 0, "SUCCESS", row.validationId)
                      EXCEPT !.mail = sendLoginVerificationEmail(
                        [email |-> row.userId, recipientName |-> row.userId,
                         verificationLink |-> row.validationId])]
       IN /\ validations' = validations \cup {row}
          /\ nextId' = nextId + 1
          /\ resp' = EmailResult(sent, delivered)
          /\ procs' = [procs EXCEPT ![p] = Idle]
  /\ UNCHANGED <<users, now, ticks, passed, wins, locked, creds>>
  /\ UNCHANGED siteVars

(* --------------------------- utils/jwtUtils.js ------------------------ *)
\* A signed JWT is the record of its claims; the 16 random bytes of a jti are
\* integers 1, 2, ... (every draw is fresh).  iat and exp are in minutes.
NoCred == [userId |-> 0, type |-> "none", jti |-> 0, iat |-> 0, exp |-> 0,
           key |-> "none", claims |-> {}]

\* the claims of a payload: JSON leaves out the properties that are undefined
PayloadClaims(payload) == DOMAIN payload

\* jwt.sign: key is the name of the environment variable holding the secret
generateAccessToken(payload, t, jti) ==
  [userId |-> payload.userId, type |-> "access", jti |-> jti, iat |-> t,
   exp |-> t + 15, key |-> "JWT_SECRET", claims |-> PayloadClaims(payload)]

generateRefreshToken(payload, t, jti) ==
  [userId |-> payload.userId, type |-> "refresh", jti |-> jti, iat |-> t,
   exp |-> t + 7 * 24 * 60, key |-> "JWT_REFRESH_SECRET", claims |-> {"userId"}]

\* generateTokenPair; userData holds the properties the caller passed and
\* n is the number of jti values drawn before
generateTokenPair(userData, t, n) ==
  [accessToken |-> generateAccessToken(
     [f \in {"userId", "email", "fullname"} \cap DOMAIN userData |-> userData[f]],
     t, n + 1),
   refreshToken |-> generateRefreshToken([userId |-> userData.userId], t, n + 2)]

\* the signature check of jwt.verify: the token was signed by this server
\* with the secret named; sameSecret says that the deployment gave
\* JWT_SECRET and JWT_REFRESH_SECRET the same value, which nothing forbids
SignedWith(token, key, signed, sameSecret) ==
  /\ token \in signed
  /\ \/ token.key = key
     \/ sameSecret /\ token.key \in {"JWT_SECRET", "JWT_REFRESH_SECRET"}

\* variant: the type of the decoded token is not looked at
verifyAccessToken_noTypeCheck(token, signed, t, sameSecret) ==
  IF ~SignedWith(token, "JWT_SECRET", signed, sameSecret) THEN "Invalid token"
  ELSE IF t >= token.exp THEN "Token has expired"
  ELSE "ok"

\* verifyAccessToken: jwt.verify (signature, exp), then the type check;
\* the message of the error thrown, or "ok"
verifyAccessToken(token, signed, t, sameSecret) ==
  IF ~SignedWith(token, "JWT_SECRET", signed, sameSecret) THEN "Invalid token"
  ELSE IF t >= token.exp THEN "Token has expired"
  ELSE IF token.type # "access" THEN "Invalid token type"
  ELSE "ok"

\* verifyRefreshToken: jwt.verify (signature, exp), then the type check;
\* the message of the error thrown, or "ok"
verifyRefreshToken(token, signed, t, sameSecret) ==
  IF ~SignedWith(token, "JWT_REFRESH_SECRET", signed, sameSecret)
  THEN "Invalid refresh token"
  ELSE IF t >= token.exp THEN "Refresh token has expired"
  ELSE IF token.type # "refresh" THEN "Invalid token type"
  ELSE "ok"

(* ------------------- verifyLoginLink(validationId) -------------------- *)
\* variant: a refused resolution is counted as an attempt on the row
verifyLoginLink_countsAttempt(p) ==
  /\ Free(p)
  /\ \E vid \in IdInputs :
       LET row == FindByValidationId(validations, vid)
           code == IF row = NoRow THEN "NOT_FOUND"
                   ELSE IF row.type # "login_verification" THEN "INVALID_TYPE"
                   ELSE IF isExpired(row, now) THEN "EXPIRED"
                   ELSE IF isUsed(row) THEN "ALREADY_USED"
                   ELSE IF ~users[row.userId].exists THEN "USER_NOT_FOUND"
                   ELSE "OK"
       IN IF code # "OK"
          THEN /\ resp' = Reply("loginResolve", vid, 0, code, 0)
               /\ validations' = IF row = NoRow THEN validations
                                 ELSE incrementAttempts(validations, row)
               /\ UNCHANGED procs
          ELSE /\ resp' = NoResp
               /\ UNCHANGED validations
               /\ procs' = [procs EXCEPT ![p] =
                    [pc |-> "vll_mark", row |-> row, secret |-> 0, id |-> vid]]
  /\ UNCHANGED <<users, nextId, now, ticks, passed, wins, locked, creds>>
  /\ UNCHANGED siteVars

\* Validation.findOne, the type / expired / used checks, User.findOne
verifyLoginLink(p) ==
  /\ Free(p)
  /\ \E vid \in IdInputs :
       LET row == FindByValidationId(validations, vid)
           code == IF row = NoRow THEN "NOT_FOUND"
                   ELSE IF row.type # "login_verification" THEN "INVALID_TYPE"
                   ELSE IF isExpired(row, now) THEN "EXPIRED"
                   ELSE IF isUsed(row) THEN "ALREADY_USED"
                   ELSE IF ~users[row.userId].exists THEN "USER_NOT_FOUND"
                   ELSE "OK"
       IN IF code # "OK"
          THEN /\ resp' = Reply("loginResolve", vid, 0, code, 0)
               /\ UNCHANGED procs
          ELSE /\ resp' = NoResp
               /\ procs' = [procs EXCEPT ![p] =
                    [pc |-> "vll_mark", row |-> row, secret |-> 0, id |-> vid]]
  /\ UNCHANGED <<users, validations, nextId, now, ticks, passed, wins, locked, creds>>
  /\ UNCHANGED siteVars

\* await validationData.markAsUsed()
verifyLoginLink_markAsUsed(p) ==
  /\ procs[p].pc = "vll_mark"
  /\ validations' = markAsUsed(validations, procs[p].row, now)
  /\ procs' = [procs EXCEPT ![p].pc = "vll_issue"]
  /\ resp' = NoResp
  /\ UNCHANGED <<users, nextId, now, ticks, passed, wins, locked, creds>>
  /\ UNCHANGED siteVars

\* await logLogin(...), generateTokenPair(...), the success result
verifyLoginLink_generateTokenPair(p) ==
  /\ procs[p].pc = "vll_issue"
  /\ wins' = [wins EXCEPT ![procs[p].row.id] = @ + 1]
  /\ LET user == procs[p].row.userId
         tokens == generateTokenPair([userId |-> user, email |-> user,
                                      fullname |-> user], now, Cardinality(creds))
     IN creds' = creds \cup {tokens.accessToken, tokens.refreshToken}
  /\ resp' = Reply("loginResolve", procs[p].id, 0, "SUCCESS", procs[p].row.userId)
  /\ procs' = [procs EXCEPT ![p] = Idle]
  /\ UNCHANGED <<users, validations, nextId, now, ticks, passed, locked>>
  /\ UNCHANGED siteVars

(* ------------------- refreshAccessToken(refreshToken) ----------------- *)
\* a refresh token signed with another key
Forged == [userId |-> 1001, type |-> "refresh", jti |-> 0, iat |-> 0,
           exp |-> 7 * 24 * 60, key |-> "other", claims |-> {"userId"}]

\* what the refreshToken cookie can hold: nothing, a signed token, a forgery
CookieInputs == creds \cup {NoCred, Forged}

\* the service: verifyRefreshToken (its throw is caught), User.findOne,
\* generateTokenPair; n is the number of jti values drawn before
refreshAccessTokenResult(refreshToken, t, n, sameSecret) ==
  LET verdict == verifyRefreshToken(refreshToken, creds, t, sameSecret)
  IN IF verdict # "ok"
     THEN [success |-> FALSE, reason |-> verdict, code |-> "REFRESH_TOKEN_ERROR"]
     ELSE IF ~users[refreshToken.userId].exists
     THEN [success |-> FALSE, reason |-> "User not found", code |-> "USER_NOT_FOUND"]
     ELSE [success |-> TRUE,
           data |-> generateTokenPair([userId |-> refreshToken.userId], t, n)]

\* the controller's answer: 403 with the reason, or 200 with the access token
\* alone
refreshAccessTokenResponse(r, result) ==
  IF result.success
  THEN [Http(r, 200, [success |-> "true",
                      message |-> "Token refreshed successfully",
                      data |-> "accessToken"])
         EXCEPT !.tokens = {<<"accessToken", result.data.accessToken>>}]
  ELSE Http(r, 403, [success |-> "false", error |-> result.reason,
                     code |-> result.code])

\* the controller and the service; between the verification and the signing
\* the request reads only the users table, which no request of this flow
\* writes, so the request is one step
refreshAccessToken(p) ==
  /\ Free(p)
  /\ Cardinality(creds) + 2 <= MaxCreds
  /\ \E refreshToken \in CookieInputs, sameSecret \in BOOLEAN :
       IF refreshToken = NoCred
       THEN /\ resp' = Http(Reply("refresh", 0, 0, "REQUIRED", 0), 400,
                            [success |-> "false",
                             error |-> "Refresh token is required"])
            /\ UNCHANGED creds
       ELSE LET result == refreshAccessTokenResult(refreshToken, now,
                                                   Cardinality(creds), sameSecret)
            IN IF result.success
               THEN /\ creds' = creds \cup {result.data.accessToken,
                                             result.data.refreshToken}
                    /\ resp' = refreshAccessTokenResponse(
                                 Reply("refresh", refreshToken.jti, 0, "SUCCESS",
                                       refreshToken.userId), result)
               ELSE /\ resp' = refreshAccessTokenResponse(
                                 Reply("refresh", refreshToken.jti, 0,
                                       result.code, 0), result)
                    /\ UNCHANGED creds
  /\ UNCHANGED <<users, validations, nextId, now, ticks, procs, passed, wins, locked>>
  /\ UNCHANGED siteVars

(* --------------- authenticate (middleware) and GET /users ------------- *)
\* the Authorization header: absent, another scheme, "Bearer " alone, or
\* "Bearer " followed by a token
HeaderInputs ==
  {[scheme |-> sc, token |-> NoCred] : sc \in {"none", "Basic", "Bearer"}}
    \cup {[scheme |-> "Bearer", token |-> c] : c \in creds \cup {Forged}}

\* variant: an error thrown by the verification is swallowed
authMiddleware_failOpen(authHeader, signed, t, sameSecret) ==
  IF authHeader.scheme = "none" THEN "NO_TOKEN"
  ELSE IF authHeader.scheme # "Bearer" THEN "INVALID_FORMAT"
  ELSE IF authHeader.token = NoCred THEN "EMPTY_TOKEN"
  ELSE "NEXT"

\* the middleware authenticate: the code of its 401 answer, or "NEXT" when
\* it calls next()
authMiddleware(authHeader, signed, t, sameSecret) ==
  IF authHeader.scheme = "none" THEN "NO_TOKEN"
  ELSE IF authHeader.scheme # "Bearer" THEN "INVALID_FORMAT"
  ELSE IF authHeader.token = NoCred THEN "EMPTY_TOKEN"
  ELSE IF verifyAccessToken(authHeader.token, signed, t, sameSecret) # "ok"
  THEN "AUTH_FAILED"
  ELSE "NEXT"

\* router.get('/', authenticate, userController.getUser): the middleware,
\* then the handler with req.user.userId; the handler only reads
getUser(p) ==
  /\ Free(p)
  /\ \E authHeader \in HeaderInputs, sameSecret \in BOOLEAN :
       LET code == authMiddleware(authHeader, creds, now, sameSecret)
           userId == authHeader.token.userId
           sent(c, out) == [Reply("protected", authHeader.token.jti, 0, c, out)
                             EXCEPT !.scheme = authHeader.scheme]
       IN resp' = IF code # "NEXT"
                  THEN Http(sent(code, 0), 401,
                            [success |-> "false", code |-> code])
                  ELSE IF ~users[userId].exists
                  THEN Http(sent("NEXT", userId), 404,
                            [success |-> "false", error |-> "User not found"])
                  ELSE Http(sent("NEXT", userId), 200,
                            [success |-> "true", data |-> "user"])
  /\ UNCHANGED <<users, validations, nextId, now, ticks, procs, passed, wins,
                 locked, creds>>
  /\ UNCHANGED siteVars

(* ---------------- regenerateExpiredToken(validationId) ---------------- *)
\* Validation.findOne, the expired / used checks, User.findOne
regenerateExpiredToken(p) ==
  /\ Free(p)
  /\ CanRegenerate
  /\ \E vid \in IdInputs :
       LET row == FindByValidationId(validations, vid)
           code == IF row = NoRow THEN "NOT_FOUND"
                   ELSE IF ~isExpired(row, now) THEN "TOKEN_NOT_EXPIRED"
                   ELSE IF isUsed(row) THEN "ALREADY_USED"
                   ELSE IF ~users[row.userId].exists THEN "USER_NOT_FOUND"
                   ELSE "OK"
       IN IF code # "OK"
          THEN /\ resp' = Reply("regenerate", vid, 0, code, 0)
               /\ UNCHANGED procs
          ELSE /\ resp' = NoResp
               /\ procs' = [procs EXCEPT ![p] =
                    [pc |-> "regen_destroy", row |-> row, secret |-> 0, id |-> vid]]
  /\ UNCHANGED <<users, validations, nextId, now, ticks, passed, wins, locked, creds>>
  /\ UNCHANGED siteVars

\* await existingToken.destroy()
regenerateExpiredToken_destroy(p) ==
  /\ procs[p].pc = "regen_destroy"
  /\ validations' = {r \in validations : r.id # procs[p].row.id}
  /\ procs' = [procs EXCEPT ![p].pc = "regen_create"]
  /\ resp' = NoResp
  /\ UNCHANGED <<users, nextId, now, ticks, passed, wins, locked, creds>>
  /\ UNCHANGED siteVars

\* variant: the old validationId handed on to Validation.create, where the
\* hook keeps a validationId that is already set
RegeneratedRow_keepValidationId(old, code) ==
  [NewRow(old.type, old.userId, code) EXCEPT !.validationId = old.validationId]

\* the mail regenerateExpiredToken sends for the new token, by the type of
\* the old one
regenerateMail(old, new) ==
  CASE old.type = "email_verification" ->
         sendVerificationEmail([email |-> new.userId, token |-> new.token,
                                recipientName |-> new.userId,
                                verificationLink |-> new.validationId])
    [] old.type = "login_verification" ->
         sendLoginVerificationEmail([email |-> new.userId, token |-> new.token,
                                     recipientName |-> new.userId,
                                     validationId |-> new.validationId,
                                     deviceInfo |-> metadata(old)])
    [] old.type = "password_reset" ->
         sendPasswordResetEmail([email |-> new.userId, token |-> new.token,
                                 recipientName |-> new.userId,
                                 validationId |-> new.validationId])
    [] OTHER -> NoMail

\* the values regenerateExpiredToken hands to Validation.create
RegeneratedRow(old, code) == NewRow(old.type, old.userId, code)

\* await Validation.create({... type: existingToken.type}), mail, result;
\* a code that repeats a stored one violates the unique index and throws
regenerateExpiredToken_create(p) ==
  /\ procs[p].pc = "regen_create"
  /\ \E code \in Codes :
       LET old == procs[p].row
           row == RegeneratedRow(old, code)
       IN IF TokenTaken(validations, row.token)
          THEN /\ resp' = Reply("regenerate", procs[p].id, 0, "ERROR", 0)
               /\ UNCHANGED <<validations, nextId>>
          ELSE /\ validations' = validations \cup {row}
               /\ nextId' = nextId + 1
               /\ resp' = [Reply("regenerate", procs[p].id, row.token, "SUCCESS",
                                 row.validationId)
                             EXCEPT !.mail = regenerateMail(old, row)]
  /\ procs' = [procs EXCEPT ![p] = Idle]
  /\ UNCHANGED <<users, now, ticks, passed, wins, locked, creds>>
  /\ UNCHANGED siteVars

(* --------------------------- createUser(userData) --------------------- *)
\* User.create (unique email), validation.create of an email_verification
\* token, mail.  A failure of the second create leaves the user row stored.
createUser(p) ==
  /\ Free(p)
  /\ CanCreate
  /\ \E u \in Users, pw \in Passwords, code \in Codes, delivered \in BOOLEAN :
       LET row == NewRow("email_verification", u, code)
       IN IF users[u].exists
          THEN /\ resp' = Reply("register", u, 0, "ERROR", 0)
               /\ UNCHANGED <<users, validations, nextId>>
          ELSE /\ users' = [users EXCEPT ![u] = Registered(pw, FALSE)]
               /\ IF TokenTaken(validations, row.token)
                  THEN /\ resp' = Reply("register", u, 0, "ERROR", 0)
                       /\ UNCHANGED <<validations, nextId>>
                  ELSE /\ validations' = validations \cup {row}
                       /\ nextId' = nextId + 1
                       /\ resp' = EmailResult(
                            [Reply("register", u, 0, "SUCCESS", row.validationId)
                               EXCEPT !.mail = sendVerificationEmail(
                                 [email |-> u, token |-> row.token,
                                  recipientName |-> u,
                                  verificationLink |-> row.validationId])],
                            delivered)
  /\ UNCHANGED <<now, ticks, procs, passed, wins, locked, creds>>
  /\ UNCHANGED siteVars

(* ------------------- resendVerificationByEmail(email) ----------------- *)
resendVerificationByEmail(p) ==
  /\ Free(p)
  /\ CanCreate
  /\ \E u \in Users, code \in Codes :
       LET mine == {r \in validations : r.userId = u /\ r.type = "email_verification"}
           existingToken == Latest(mine)
           row == NewRow("email_verification", u, code)
       IN IF ~users[u].exists
          THEN /\ resp' = Reply("resend", u, 0, "USER_NOT_FOUND", 0)
               /\ UNCHANGED <<validations, nextId>>
          ELSE IF existingToken # NoRow /\ ~isExpired(existingToken, now)
                  /\ ~isUsed(existingToken)
          THEN /\ resp' = Reply("resend", u, 0, "TOKEN_STILL_VALID", 0)
               /\ UNCHANGED <<validations, nextId>>
          ELSE IF TokenTaken(validations \ mine, row.token)
          THEN /\ validations' = validations \ mine
               /\ resp' = Reply("resend", u, 0, "ERROR", 0)
               /\ UNCHANGED nextId
          ELSE /\ validations' = (validations \ mine) \cup {row}
               /\ nextId' = nextId + 1
               /\ resp' = Reply("resend", u, 0, "SUCCESS", row.validationId)
  /\ UNCHANGED <<users, now, ticks, procs, passed, wins, locked, creds>>
  /\ UNCHANGED siteVars

(* -------------------------- forgotPassword(email) --------------------- *)
\* the result forgotPassword returns: without an account it has no data
\* property
forgotPasswordResult(userExists) ==
  IF ~userExists
  THEN [success |-> "false",
        message |-> "If an account with that email exists, a password reset link has been sent",
        data |-> "undefined"]
  ELSE [success |-> "true",
        message |-> "If an account with that email exists, a password reset link has been sent",
        data |-> "{emailSent}"]

\* the controller's answer: status 200, success true, the result's message
\* and data
forgotPasswordResponse(r, result) ==
  Http(r, 200, [success |-> "true", message |-> result.message, data |-> result.data])

\* User.findOne, Validation.findOne: reuses the latest unused, unexpired
\* password_reset token (mail, result) or goes on to create one; the mailed
\* link carries the token column: .../reset-password/<token>
forgotPassword(p) ==
  /\ Free(p)
  /\ CanCreate
  /\ \E u \in Users, delivered \in BOOLEAN :
       LET existingToken == Latest({r \in validations :
                                     /\ r.userId = u
                                     /\ r.type = "password_reset"
                                     /\ r.usedAt = NULL})
       IN IF ~users[u].exists
          THEN /\ resp' = forgotPasswordResponse(Reply("forgot", u, 0, "GENERIC", 0),
                                               forgotPasswordResult(FALSE))
               /\ UNCHANGED procs
          ELSE IF existingToken # NoRow /\ ~isExpired(existingToken, now)
          THEN /\ resp' = forgotPasswordResponse(
                            EmailResult(Reply("forgot", u, 0, "GENERIC",
                                              existingToken.token), delivered),
                            forgotPasswordResult(TRUE))
               /\ UNCHANGED procs
          ELSE /\ resp' = NoResp
               /\ procs' = [procs EXCEPT ![p] =
                    [pc |-> "forgot_create", row |-> NoRow, secret |-> 0, id |-> u]]
  /\ UNCHANGED <<users, validations, nextId, now, ticks, passed, wins, locked, creds>>
  /\ UNCHANGED siteVars

\* await Validation.create({... type: 'password_reset'}), mail, result
forgotPassword_create(p) ==
  /\ procs[p].pc = "forgot_create"
  /\ \E delivered \in BOOLEAN :
       LET u == procs[p].id
           row == NewRow("password_reset", u, 0)
       IN /\ validations' = validations \cup {row}
          /\ nextId' = nextId + 1
          /\ resp' = forgotPasswordResponse(
                       EmailResult(Reply("forgot", u, 0, "GENERIC", row.token),
                                   delivered),
                       forgotPasswordResult(TRUE))
          /\ procs' = [procs EXCEPT ![p] = Idle]
  /\ UNCHANGED <<users, now, ticks, passed, wins, locked, creds>>
  /\ UNCHANGED siteVars

(* ------------------ verifyPasswordResetLink(validationId) ------------- *)
\* variant: the link visit consumes the token, as verifyLoginLink does
verifyPasswordResetLink_marksUsed(p) ==
  /\ Free(p)
  /\ \E id \in IdInputs :
       LET row == FindByToken(validations, id)
           ok == /\ row # NoRow
                 /\ row.type = "password_reset"
                 /\ ~isExpired(row, now)
                 /\ ~isUsed(row)
       IN /\ resp' = Reply("resetResolve", id, 0,
                       IF ok THEN "SUCCESS" ELSE "NOT_FOUND",
                       IF row = NoRow THEN 0 ELSE row.userId)
          /\ validations' = IF ok THEN markAsUsed(validations, row, now)
                            ELSE validations
  /\ UNCHANGED <<users, nextId, now, ticks, procs, passed, wins, locked, creds>>
  /\ UNCHANGED siteVars

\* looks the parameter up in the `token` column
verifyPasswordResetLink(p) ==
  /\ Free(p)
  /\ \E id \in IdInputs :
       LET row == FindByToken(validations, id)
       IN resp' = Reply("resetResolve", id, 0,
                    IF row = NoRow THEN "NOT_FOUND"
                    ELSE IF row.type # "password_reset" THEN "INVALID_TYPE"
                    ELSE IF isExpired(row, now) THEN "EXPIRED"
                    ELSE IF isUsed(row) THEN "ALREADY_USED"
                    ELSE "SUCCESS",
                    IF row = NoRow THEN 0 ELSE row.userId)
  /\ UNCHANGED <<users, validations, nextId, now, ticks, procs, passed, wins, locked, creds>>
  /\ UNCHANGED siteVars

(* ---------------------- resetPassword(Id, newPassword) ---------------- *)
\* User.findOne({where: {userId: Id}}), user.update({password})
resetPassword(p) ==
  /\ Free(p)
  /\ \E id \in IdInputs, pw \in Passwords :
       IF id \in Users /\ users[id].exists
       THEN /\ users' = [users EXCEPT ![id].password = Hash(pw)]
            /\ resp' = Reply("resetSubmit", id, 0, "SUCCESS", 0)
       ELSE /\ resp' = Reply("resetSubmit", id, 0, "USER_NOT_FOUND", 0)
            /\ UNCHANGED users
  /\ UNCHANGED <<validations, nextId, now, ticks, procs, passed, wins, locked, creds>>
  /\ UNCHANGED siteVars

(* ------------------- GET magic_link/:id (controllers) ----------------- *)
\* markEmailAsVerified(userId)
markEmailAsVerified(us, userId) == [us EXCEPT ![userId].isEmailVerified = TRUE]

\* variant: the owner's email is marked verified whatever the token's type
fetchvalidationToken_anyType(p) ==
  /\ Free(p)
  /\ \E vid \in IdInputs :
       LET row == FindByValidationId(validations, vid)
       IN IF row = NoRow \/ isExpired(row, now) \/ isUsed(row)
          THEN /\ resp' = Reply("magicLink", vid, 0,
                       IF row = NoRow THEN "NOT_FOUND"
                       ELSE IF isExpired(row, now) THEN "EXPIRED"
                       ELSE "ALREADY_USED", 0)
               /\ UNCHANGED <<users, validations>>
          ELSE IF ~users[row.userId].exists
          THEN /\ resp' = Reply("magicLink", vid, 0, "ERROR", 0)
               /\ UNCHANGED <<users, validations>>
          ELSE /\ users' = markEmailAsVerified(users, row.userId)
               /\ validations' = validations \ {row}
               /\ resp' = Reply("magicLink", vid, 0, "SUCCESS", row.userId)
  /\ UNCHANGED <<nextId, now, ticks, procs, passed, wins, locked, creds>>
  /\ UNCHANGED siteVars

\* fetchvalidationToken as served by the router: on a valid token it marks
\* the owner's email verified (email_verification only) and deletes the row
fetchvalidationToken(p) ==
  /\ Free(p)
  /\ \E vid \in IdInputs :
       LET row == FindByValidationId(validations, vid)
       IN IF row = NoRow \/ isExpired(row, now) \/ isUsed(row)
          THEN /\ resp' = Reply("magicLink", vid, 0,
                       IF row = NoRow THEN "NOT_FOUND"
                       ELSE IF isExpired(row, now) THEN "EXPIRED"
                       ELSE "ALREADY_USED", 0)
               /\ UNCHANGED <<users, validations>>
          ELSE IF row.type = "email_verification" /\ ~users[row.userId].exists
          THEN /\ resp' = Reply("magicLink", vid, 0, "ERROR", 0)
               /\ UNCHANGED <<users, validations>>
          ELSE /\ users' = IF row.type = "email_verification"
                           THEN markEmailAsVerified(users, row.userId) ELSE users
               /\ validations' = validations \ {row}
               /\ resp' = Reply("magicLink", vid, 0, "SUCCESS", row.userId)
  /\ UNCHANGED <<nextId, now, ticks, procs, passed, wins, locked, creds>>
  /\ UNCHANGED siteVars

\* fetchvalidationToken of controllers/userController.js: reports the status
fetchvalidationTokenStatus(p) ==
  /\ Free(p)
  /\ \E vid \in IdInputs :
       LET row == FindByValidationId(validations, vid)
       IN resp' = Reply("linkStatus", vid, 0,
                    IF row = NoRow THEN "NOT_FOUND"
                    ELSE IF isExpired(row, now) THEN "EXPIRED"
                    ELSE IF isUsed(row) THEN "ALREADY_USED"
                    ELSE "SUCCESS", 0)
  /\ UNCHANGED <<users, validations, nextId, now, ticks, procs, passed, wins, locked, creds>>
  /\ UNCHANGED siteVars

(* ------------------------------ behaviour ----------------------------- *)
\* a database in which every account is registered and has followed its
\* verification link (which deleted the email_verification row)
InitRegistered ==
  /\ users = [u \in Users |-> Registered("pwA", TRUE)]
  /\ validations = {}
  /\ nextId = 0
  /\ now = 0
  /\ ticks = 0
  /\ procs = [p \in Procs |-> Idle]
  /\ resp = NoResp
  /\ passed = [i \in RowIds |-> 0]
  /\ wins = [i \in RowIds |-> 0]
  /\ locked = {}
  /\ creds = {}
  /\ NoClients

Verify(p) ==
  \/ verifyValidationToken(p)
  \/ verifyValidationToken_incrementAttempts(p)
  \/ verifyValidationToken_markAsUsed(p)

Regenerate(p) ==
  \/ regenerateExpiredToken(p)
  \/ regenerateExpiredToken_destroy(p)
  \/ regenerateExpiredToken_create(p)

Login(p) == loginUser(p) \/ loginUser_destroy(p) \/ loginUser_create(p)

Forgot(p) == forgotPassword(p) \/ forgotPassword_create(p)

LoginResolve(p) ==
  \/ verifyLoginLink(p)
  \/ verifyLoginLink_markAsUsed(p)
  \/ verifyLoginLink_generateTokenPair(p)

\* a database in which one account has registered and its
\* email_verification row is stored, as createUser leaves it
InitEmailPending ==
  /\ \E u \in Users, code \in Codes :
       /\ users = [v \in Users |-> IF v = u THEN Registered("pwA", FALSE) ELSE NoUser]
       /\ validations = {beforeValidate(1, "email_verification", u, code, 0)}
  /\ nextId = 1
  /\ now = 0
  /\ ticks = 0
  /\ procs = [p \in Procs |-> Idle]
  /\ resp = NoResp
  /\ passed = [i \in RowIds |-> 0]
  /\ wins = [i \in RowIds |-> 0]
  /\ locked = {}
  /\ creds = {}
  /\ NoClients

\* a database in which the one login_verification row of a pending login
\* is stored, as loginUser leaves it
InitLoginPending ==
  /\ users = [u \in Users |-> Registered("pwA", TRUE)]
  /\ \E u \in Users :
       validations = {beforeValidate(1, "login_verification", u, 0, 0)}
  /\ nextId = 1
  /\ now = 0
  /\ ticks = 0
  /\ procs = [p \in Procs |-> Idle]
  /\ resp = NoResp
  /\ passed = [i \in RowIds |-> 0]
  /\ wins = [i \in RowIds |-> 0]
  /\ locked = {}
  /\ creds = {}
  /\ NoClients

\* the code-verification flow on a pending registration
NextVerify ==
  \/ Tick
  \/ \E p \in Procs :
       \/ Verify(p)
       \/ fetchvalidationToken(p)
       \/ fetchvalidationTokenStatus(p)

\* regeneration and resending of expired tokens
NextRegen ==
  \/ Tick
  \/ \E p \in Procs :
       \/ Regenerate(p)
       \/ resendVerificationByEmail(p)
       \/ Forgot(p)
       \/ fetchvalidationTokenStatus(p)

\* the magic-link login flow
NextLogin ==
  \/ Tick
  \/ \E p \in Procs :
       \/ Login(p)
       \/ LoginResolve(p)
       \/ fetchvalidationTokenStatus(p)

\* the two ways of consuming a pending login token
NextConsume ==
  \/ Tick
  \/ \E p \in Procs :
       \/ LoginResolve(p)
       \/ Verify(p)

\* the password-reset flow
NextReset ==
  \/ Tick
  \/ \E p \in Procs :
       \/ Forgot(p)
       \/ verifyPasswordResetLink(p)
       \/ resetPassword(p)
       \/ Login(p)

\* a database holding one login_verification row created with an explicit
\* maxAttempts (or, with NULL, none), as Validation.create({..., maxAttempts})
\* stores it
InitCeiling ==
  /\ users = [u \in Users |-> Registered("pwA", TRUE)]
  /\ \E u \in Users, k \in {NULL} \cup (1 .. MaxCeiling) :
       validations = {[beforeValidate(1, "login_verification", u, 0, 0)
                         EXCEPT !.maxAttempts = BuildDefaults(k)]}
  /\ nextId = 1
  /\ now = 0
  /\ ticks = 0
  /\ procs = [p \in Procs |-> Idle]
  /\ resp = NoResp
  /\ passed = [i \in RowIds |-> 0]
  /\ wins = [i \in RowIds |-> 0]
  /\ locked = {}
  /\ creds = {}
  /\ NoClients

\* requests served one after another use a single slot
OneAtATime == {"p1"}

\* verification by code, regeneration and resending on a pending
\* registration, one request at a time
NextResend ==
  \/ Tick
  \/ \E p \in OneAtATime :
       \/ Verify(p)
       \/ Regenerate(p)
       \/ resendVerificationByEmail(p)

\* interleaved regenerations of the stored email_verification token
NextReplace ==
  \/ Tick
  \/ \E p \in Procs : Regenerate(p)

CreateSite(p) == createSite(p) \/ createSite_create(p) \/ createSite_save(p)

DeleteSite(p) ==
  \/ deleteSite(p)
  \/ deleteSite_findClient(p)
  \/ deleteSite_destroy(p)
  \/ deleteSite_save(p)

\* a database in which one account has registered and owns the stored
\* clients, none of which has a site
InitClients ==
  /\ \E u \in Users :
       /\ users = [v \in Users |-> IF v = u THEN Registered("pwA", TRUE) ELSE NoUser]
       /\ clients = [c \in ClientIds |-> Client(c, u, 0)]
  /\ validations = {}
  /\ nextId = 0
  /\ now = 0
  /\ ticks = 0
  /\ procs = [p \in Procs |-> Idle]
  /\ resp = NoResp
  /\ passed = [i \in RowIds |-> 0]
  /\ wins = [i \in RowIds |-> 0]
  /\ locked = {}
  /\ creds = {}
  /\ sites = {}
  /\ nextSiteId = 0
  /\ siteProcs = [p \in Procs |-> SiteIdle]
  /\ created = [c \in ClientIds |-> 0]
  /\ deleted = [c \in ClientIds |-> 0]

\* interleaved site requests
NextSites == \E p \in Procs : CreateSite(p) \/ DeleteSite(p)

\* secrets submitted one after another against a token
NextAttempts ==
  \/ Tick
  \/ \E p \in OneAtATime : Verify(p)

\* the mailed links of the login and password-reset flows and their
\* resolution, one request at a time
NextResolve ==
  \/ Tick
  \/ \E p \in OneAtATime :
       \/ Login(p)
       \/ LoginResolve(p)
       \/ Forgot(p)
       \/ verifyPasswordResetLink(p)

\* login and forgot-password requests for an email with an account and for
\* one without
NextAccounts ==
  \/ Tick
  \/ \E p \in Procs :
       \/ Login(p)
       \/ LoginResolve(p)
       \/ Forgot(p)

\* login requests and the regeneration of their tokens
NextLoginMail ==
  \/ Tick
  \/ \E p \in Procs :
       \/ Login(p)
       \/ Regenerate(p)

\* the sessions: magic-link sign-in, then refreshes and protected requests
NextRefresh ==
  \/ Tick
  \/ \E p \in OneAtATime :
       \/ LoginResolve(p)
       \/ refreshAccessToken(p)
       \/ getUser(p)

\* registration, login and forgot-password with a mail transport that may
\* fail, and the resolution of the tokens they create
NextMail ==
  \/ Tick
  \/ \E p \in OneAtATime :
       \/ createUser(p)
       \/ Login(p)
       \/ Forgot(p)
       \/ verifyPasswordResetLink(p)

\* every operation a pending token can meet, one request at a time
NextTerminal ==
  \/ Tick
  \/ \E p \in OneAtATime :
       \/ Verify(p)
       \/ LoginResolve(p)
       \/ fetchvalidationToken(p)
       \/ fetchvalidationTokenStatus(p)

\* a registered, unverified account: GET magic_link on tokens of every kind,
\* one request at a time
NextFlag ==
  \/ Tick
  \/ \E p \in OneAtATime :
       \/ fetchvalidationToken(p)
       \/ Login(p)
       \/ Forgot(p)

SpecVerify == InitEmailPending /\ [][NextVerify]_vars
SpecRegen == InitRegistered /\ [][NextRegen]_vars
SpecLogin == InitRegistered /\ [][NextLogin]_vars
SpecConsume == InitLoginPending /\ [][NextConsume]_vars
SpecReset == InitRegistered /\ [][NextReset]_vars
SpecResend == InitEmailPending /\ [][NextResend]_vars
SpecAttempts == InitCeiling /\ [][NextAttempts]_vars
SpecResolve == InitRegistered /\ [][NextResolve]_vars
SpecAccounts == InitEmailPending /\ [][NextAccounts]_vars
SpecRefresh == InitLoginPending /\ [][NextRefresh]_vars
SpecMail == Init /\ [][NextMail]_vars
SpecTerminal == InitCeiling /\ [][NextTerminal]_vars
SpecFlag == InitEmailPending /\ [][NextFlag]_vars
SpecLoginMail == InitRegistered /\ [][NextLoginMail]_vars
SpecReplace == InitEmailPending /\ [][NextReplace]_vars
SpecSites == InitClients /\ [][NextSites]_vars


(* ------------------------------ properties ---------------------------- *)
\* the password_reset rows an identifier names, by any of the columns a
\* handler looks it up in
ResetTokensNamed(rows, id) ==
  {r \in rows : r.type = "password_reset" /\ id \in {r.validationId, r.token}}

\* C1: a step changes a stored password only when the request presented the
\* id of a password_reset token that exists, is unexpired and is unused.
C1_PasswordChangeNeedsResetToken ==
  [][\A u \in Users :
       users'[u] # users[u] =>
         /\ resp'.op = "resetSubmit"
         /\ \E r \in ResetTokensNamed(validations, resp'.id) :
              ~isExpired(r, now) /\ ~isUsed(r)]_vars

\* C2: over any interleaving of verify and login-resolve requests, at most
\* one request is answered with success for the same validation row.
C2_ConsumedAtMostOnce == \A i \in RowIds : wins[i] <= 1

\* C3: the stored attempts of a row never decreases from one state to the
\* next and never exceeds the row's maxAttempts.
C3_AttemptsMonotoneAndBounded ==
  [][\A r \in validations : \A q \in validations' :
       q.id = r.id => q.attempts >= r.attempts /\ q.attempts <= q.maxAttempts]_vars

\* C4: once the stored attempts of a row has equalled maxAttempts, no verify
\* call that starts afterwards with the correct secret is let past the checks
\* (a call let past them with the correct secret is answered with success).
C4_LockedNeverVerifies ==
  [][\A p \in Procs :
       (procs[p].pc = "idle" /\ procs'[p].pc = "vvt_incr"
          /\ procs'[p].secret = procs'[p].row.token)
       => procs'[p].row.id \notin locked]_vars

\* C5: however many verify calls run concurrently against a row, at most
\* maxAttempts of them get past the ceiling check.
C5_AtMostMaxAttemptsPass ==
  \A r \in validations : passed[r.id] <= r.maxAttempts

\* a verify call on the row starts in this step: it is either answered at
\* once or let past the checks
VerifyStartsOn(r) ==
  \/ resp'.op = "verify" /\ resp'.id = r.validationId /\ procs' = procs
  \/ \E p \in Procs : /\ procs[p].pc = "idle"
                      /\ procs'[p].pc = "vvt_incr"
                      /\ procs'[p].id = r.validationId

\* C6 as stated: a verify call that starts on a row whose usedAt is set is
\* answered ALREADY_USED, whatever the secret and whatever the time.
C6_UsedAlwaysAlreadyUsed ==
  [][\A r \in validations :
       (isUsed(r) /\ VerifyStartsOn(r)) => resp'.code = "ALREADY_USED"]_vars

\* C6 amended: a verify call that starts on a row whose usedAt is set is
\* never let past the checks; it is answered ALREADY_USED while the row is
\* unexpired and EXPIRED once expiresAt has passed.
C6_UsedNeverVerifies ==
  [][\A r \in validations :
       (isUsed(r) /\ VerifyStartsOn(r)) =>
          resp'.code = IF isExpired(r, now) THEN "EXPIRED" ELSE "ALREADY_USED"]_vars

\* a verify call on a used, unexpired row has just been answered ALREADY_USED
C6_Witness ==
  /\ resp.op = "verify"
  /\ resp.code = "ALREADY_USED"
  /\ \E r \in validations : r.validationId = resp.id /\ isUsed(r)

\* the password_reset rows a successful submit was made for: the rows the
\* presented id names, or the rows of the user it names
ResetTokensOfSubmit(rows, id) ==
  ResetTokensNamed(rows, id) \cup {r \in rows : r.type = "password_reset" /\ r.userId = id}

\* C7: after a reset-password-submit is answered with success, every
\* unexpired password_reset token it was made for is marked used.
C7_SubmitMarksTokenUsed ==
  [][(resp'.op = "resetSubmit" /\ resp'.code = "SUCCESS") =>
       \A r \in ResetTokensOfSubmit(validations', resp'.id) :
          ~isExpired(r, now) => isUsed(r)]_vars

\* C8: no state holds a login_verification row that is marked used while no
\* credential pair has been issued for it.
C8_UsedOnlyAfterIssue ==
  \A r \in validations :
    (r.type = "login_verification" /\ isUsed(r)) => wins[r.id] >= 1

\* C9: a user never has more than one unused, unexpired login_verification
\* row, also when login-initiate requests interleave.
C9_OneLiveLoginToken ==
  \A u \in Users :
    Cardinality({r \in validations : /\ r.userId = u
                                      /\ r.type = "login_verification"
                                      /\ ~isUsed(r)
                                      /\ ~isExpired(r, now)}) <= 1

\* the regeneration that completes with success in this step replaced `old`
\* by `new`
Regenerated(old, new) ==
  /\ resp'.op = "regenerate" /\ resp'.code = "SUCCESS"
  /\ \E p \in Procs : /\ procs[p].pc = "regen_create"
                      /\ procs'[p].pc = "idle"
                      /\ procs[p].row = old
  /\ new \in validations' \ validations

\* an identifier that resolves to no row never resolves to one again
GoneStaysGone ==
  \A v \in 1 .. 2 * nextId :
    FindByValidationId(validations, v) = NoRow =>
      FindByValidationId(validations', v) = NoRow

\* C10 as stated: a successful regeneration yields a row whose validationId
\* and secret both differ from the original's, and the original validationId
\* resolves to no row afterwards.
C10_RegeneratedAllDiffer ==
  [][/\ \A old \in {procs[p].row : p \in Procs} : \A new \in validations' :
          Regenerated(old, new) =>
            /\ new.validationId # old.validationId
            /\ new.token # old.token
            /\ FindByValidationId(validations', old.validationId) = NoRow
     /\ GoneStaysGone]_vars

\* C10 amended: a successful regeneration yields a row whose validationId
\* differs from the original's and whose secret differs when the kind's
\* secret is a random 32-byte string; a 6-digit email_verification code is a
\* new draw that may repeat the original's.  The original validationId
\* resolves to no row afterwards.
C10_RegeneratedIdDiffers ==
  [][/\ \A old \in {procs[p].row : p \in Procs} : \A new \in validations' :
          Regenerated(old, new) =>
            /\ new.validationId # old.validationId
            /\ (old.type # "email_verification" => new.token # old.token)
            /\ new.type = old.type /\ new.userId = old.userId
            /\ FindByValidationId(validations', old.validationId) = NoRow
     /\ GoneStaysGone]_vars

\* a regeneration has just succeeded: the row it reports is stored and the
\* identifier it was asked for resolves to no row
C10_Witness ==
  /\ resp.op = "regenerate"
  /\ resp.code = "SUCCESS"
  /\ FindByValidationId(validations, resp.out) # NoRow
  /\ FindByValidationId(validations, resp.id) = NoRow


\* the states of a prior token in which minting a successor is permitted:
\* expired, not used, not locked
Mintable(r, t) == t > r.expiresAt /\ r.usedAt = NULL /\ r.attempts < r.maxAttempts

\* C11: a regenerate request is let past its checks, and a resend request
\* deletes or creates rows, only when the prior token is expired and is
\* neither used nor locked.
C11_MintOnlyFromExpired ==
  [][/\ \A p \in Procs :
          (procs[p].pc = "idle" /\ procs'[p].pc = "regen_destroy") =>
             \A r \in validations :
                r.validationId = procs'[p].id => Mintable(r, now)
     /\ (resp'.op = "resend" /\ validations' # validations) =>
          \A r \in validations :
             (r.userId = resp'.id /\ r.type = "email_verification") =>
                Mintable(r, now)]_vars

\* the lifetimes of the policy table, in minutes
PolicyExpiry(type) ==
  CASE type = "email_verification" -> 24 * 60
    [] type = "login_verification" -> 15
    [] type = "password_reset" -> 60
    [] type = "email_change" -> 2 * 60
    [] type = "phone_verification" -> 10
    [] type = "two_factor" -> 5
    [] type = "account_recovery" -> 48 * 60

\* C12: every stored token expires at its creation time plus the lifetime
\* the policy table gives its kind.
C12_ExpiryFollowsPolicy ==
  \A r \in validations : r.expiresAt = r.createdAt + PolicyExpiry(r.type)

\* the attempt ceilings of the policy table
PolicyMaxAttempts(type) ==
  CASE type \in {"email_verification", "email_change", "account_recovery"} -> 1
    [] type \in {"login_verification", "phone_verification", "two_factor"} -> 5
    [] type = "password_reset" -> 3

\* C13: every stored token has the attempt ceiling the policy table gives
\* its kind.
C13_CeilingFollowsPolicy ==
  \A r \in validations : r.maxAttempts = PolicyMaxAttempts(r.type)

\* a wrong secret is compared in this step by request p against row r, which
\* has taken n guesses before
WrongGuessOn(p, r, n) ==
  /\ procs[p].pc = "vvt_incr"
  /\ procs'[p].pc = "idle"
  /\ procs[p].secret # procs[p].row.token
  /\ procs[p].row.id = r.id
  /\ r.attempts = n

LoginResolveStartsOn(r) ==
  \/ resp'.op = "loginResolve" /\ resp'.id = r.validationId /\ procs' = procs
  \/ \E p \in Procs : /\ procs[p].pc = "idle"
                      /\ procs'[p].pc = "vll_mark"
                      /\ procs'[p].id = r.validationId

\* C15: a link resolution that starts on a token past its expiresAt is
\* answered EXPIRED and is never let through; a password_reset link resolved
\* 61 minutes after the token's creation is answered EXPIRED.
C15_ExpiredLinkRefused ==
  [][\A r \in validations :
       /\ (r.type = "login_verification" /\ now > r.expiresAt
             /\ LoginResolveStartsOn(r))
            => resp'.code = "EXPIRED"
       /\ (r.type = "password_reset" /\ resp'.op = "resetResolve"
             /\ resp'.id = r.token
             /\ (now > r.expiresAt \/ now = r.createdAt + 61))
            => resp'.code = "EXPIRED"
       /\ (r.type = "password_reset" /\ resp'.op = "resetResolve"
             /\ resp'.id \in {r.token, r.validationId} /\ now > r.expiresAt)
            => resp'.code # "SUCCESS"]_vars

\* the link of a password_reset token created 61 minutes ago has just been
\* resolved and answered EXPIRED
C15_Witness ==
  /\ resp.op = "resetResolve"
  /\ resp.code = "EXPIRED"
  /\ \E r \in validations : /\ r.token = resp.id
                             /\ r.type = "password_reset"
                             /\ now = r.createdAt + 61

\* C16: a reset-password-resolve request leaves every stored token as it
\* was (usedAt, attempts and all other columns), so a link that resolved
\* with success resolves with success again.
C16_ResolveChangesNothing ==
  [][resp'.op = "resetResolve" =>
       /\ validations' = validations
       /\ users' = users
       /\ (resp'.code = "SUCCESS" =>
             \E r \in validations' : /\ r.token = resp'.id
                                      /\ r.type = "password_reset"
                                      /\ r.usedAt = NULL
                                      /\ now <= r.expiresAt)]_vars

\* a password_reset link has just been resolved with success and the token
\* is still unused with no attempt recorded
C16_Witness ==
  /\ resp.op = "resetResolve"
  /\ resp.code = "SUCCESS"
  /\ \E r \in validations : /\ r.token = resp.id
                             /\ r.usedAt = NULL
                             /\ r.attempts = 0

\* what a client sees of a response: the status, the set of fields of the
\* body and the message
Shape(r) ==
  [status |-> r.status,
   fields |-> DOMAIN r.body,
   message |-> IF "message" \in DOMAIN r.body THEN r.body.message ELSE "none"]

\* C17: every forgot-password response has the shape of the response to an
\* email that belongs to no account.
C17_ForgotSameShape ==
  [][resp'.op = "forgot" =>
       Shape(resp') = Shape(forgotPasswordResponse(NoResp, forgotPasswordResult(FALSE)))]_vars

\* C18: a login-initiate request that fails is answered with the same
\* status and body whether the account is missing or the password is wrong,
\* and it creates no validation row.
C18_LoginFailureUniform ==
  [][(resp'.op = "login" /\ resp'.code # "SUCCESS") =>
       /\ resp'.code = "INVALID_CREDENTIALS"
       /\ resp'.status = 401
       /\ resp'.body = [success |-> "false", error |-> "Invalid email or password",
                        code |-> "INVALID_CREDENTIALS"]
       /\ validations' = validations
       /\ procs' = procs]_vars

\* a login for an email without an account has just been refused
C18_Witness ==
  /\ resp.op = "login"
  /\ resp.code = "INVALID_CREDENTIALS"
  /\ ~users[resp.id].exists

C20_RefreshRotatesAndReturnsBoth ==
  [][(resp'.op = "refresh" /\ resp'.code = "SUCCESS" /\ creds' # creds) =>
       \E a, r \in creds' \ creds :
         /\ a.type = "access" /\ r.type = "refresh"
         /\ \A old \in {c \in creds : c.jti = resp'.id} :
              /\ a.jti # old.jti /\ r.jti # old.jti
              /\ a.iat # old.iat /\ r.iat # old.iat
         /\ resp'.tokens = {<<"accessToken", a>>, <<"refreshToken", r>>}]_vars

\* C21: a refresh credential that has just been used in a successful refresh
\* is refused when it is presented again.
C21_UsedRefreshRejected ==
  [][~ /\ resp.op = "refresh" /\ resp.code = "SUCCESS"
       /\ resp'.op = "refresh" /\ resp'.code = "SUCCESS"
       /\ resp'.id = resp.id
       /\ creds' # creds]_vars

\* the credential a response names by its jti
Presented(r) == {c \in creds : c.jti = r.id}

\* C22: the protected handler is reached only with a credential minted as an
\* access credential, and a refresh succeeds only with one minted as a refresh
\* credential, whether or not the two secrets have the same value.
C22_KindsNotInterchangeable ==
  [][/\ (resp'.op = "protected" /\ resp'.code = "NEXT") =>
          \E c \in Presented(resp') : c.type = "access" /\ c.key = "JWT_SECRET"
     /\ (resp'.op = "refresh" /\ resp'.code = "SUCCESS") =>
          \E c \in Presented(resp') :
             c.type = "refresh" /\ c.key = "JWT_REFRESH_SECRET"]_vars

\* a refresh credential that has not expired was presented as a Bearer
\* token and refused by the middleware
C22_Witness ==
  /\ resp.op = "protected"
  /\ resp.code = "AUTH_FAILED"
  /\ \E c \in Presented(resp) : c.type = "refresh" /\ now < c.exp
  /\ \E c \in creds : c.type = "access" /\ now < c.exp

\* C23: every access credential signed carries userId, email and fullname,
\* and every refresh credential carries userId alone.
C23_AccessEmbedsDisplayClaims ==
  \A c \in creds :
    /\ c.type = "access" => c.claims = {"userId", "email", "fullname"}
    /\ c.type = "refresh" => c.claims = {"userId"}

\* C24: the protected handler is invoked exactly when the request carries
\* "Bearer <token>" with a token this server signed as an access credential
\* and that has not expired; every other request is answered 401 by the
\* middleware and the handler is not invoked.
C24_HandlerOnlyWithValidBearer ==
  [][(resp'.op = "protected" /\ resp' # resp) =>
       IF /\ resp'.scheme = "Bearer"
          /\ \E c \in Presented(resp') :
               c.type = "access" /\ c.key = "JWT_SECRET" /\ now < c.exp
       THEN resp'.code = "NEXT"
       ELSE resp'.code # "NEXT" /\ resp'.status = 401 /\ resp'.out = 0]_vars

\* the handler has answered a request the middleware let through
C24_Witness ==
  /\ resp.op = "protected"
  /\ resp.code = "NEXT"
  /\ resp.status = 200
  /\ resp.scheme = "Bearer"

\* the row a register, login or forgot-password response is about
MailedRow(rows, r) ==
  {v \in rows : IF r.op = "forgot" THEN v.token = r.out ELSE v.validationId = r.out}

\* C25: when the mail of a register, login-initiate or forgot-password call
\* could not be sent, the token of that call is stored, unused and unexpired
\* after the call, and the call returns its normal result.
C25_MailFailureKeepsToken ==
  [][(resp' # resp /\ resp'.emailSent = "false"
        /\ resp'.op \in {"register", "login", "forgot"}) =>
       /\ resp'.code = (IF resp'.op = "forgot" THEN "GENERIC" ELSE "SUCCESS")
       /\ \E v \in MailedRow(validations', resp') :
            /\ v.usedAt = NULL
            /\ ~isExpired(v, now)
            /\ v.type = (CASE resp'.op = "register" -> "email_verification"
                           [] resp'.op = "login" -> "login_verification"
                           [] OTHER -> "password_reset")]_vars

\* a login link whose mail could not be sent is stored
C25_Witness ==
  /\ resp.op = "login"
  /\ resp.emailSent = "false"
  /\ \E v \in MailedRow(validations, resp) : v.type = "login_verification"

\* C26: reset-password-resolve called with the validationId of a stored,
\* unexpired, unused password_reset token answers SUCCESS, and so does the
\* call with what the mailed reset link carries.
C26_ResetResolveByValidationId ==
  [][\A r \in validations :
       (/\ r.type = "password_reset" /\ r.usedAt = NULL /\ ~isExpired(r, now)
        /\ resp' # resp /\ resp'.op = "resetResolve"
        /\ resp'.id \in {r.validationId, r.token})
         => resp'.code = "SUCCESS"]_vars

\* C27: a GET magic_link request changes no validation row (none marked used,
\* none deleted, no attempts changed) and no user field.
C27_LinkStatusReadOnly ==
  [][(resp' # resp /\ resp'.op \in {"magicLink", "linkStatus"}) =>
       validations' = validations /\ users' = users]_vars

\* Used, Expired or Locked
Terminal(r, t) == isUsed(r) \/ isExpired(r, t) \/ r.attempts >= r.maxAttempts

\* an operation on the row is answered with success, or let past its checks,
\* in this step
SucceedsOn(r) ==
  \/ VerifyStartsOn(r) /\ procs' # procs
  \/ LoginResolveStartsOn(r) /\ procs' # procs
  \/ /\ resp' # resp
     /\ resp'.op \in {"magicLink", "linkStatus", "resetResolve"}
     /\ resp'.id \in {r.validationId, r.token}
     /\ resp'.code = "SUCCESS"

\* C28: a token that is Used, Expired or Locked stays so while it is stored,
\* and no verify, check-link-status, login-resolve or reset-password-resolve
\* that starts on it succeeds.
C28_TerminalAbsorbing ==
  [][\A r \in validations :
       Terminal(r, now) =>
         /\ \A q \in validations' : q.id = r.id => Terminal(q, now')
         /\ ~SucceedsOn(r)]_vars

\* C29: a verify call that starts on a row past its expiresAt is answered
\* EXPIRED at once, whatever the secret, and changes no row: attempts and
\* usedAt stay as they are.
C29_ExpiredVerifyIsFree ==
  [][\A r \in validations :
       (isExpired(r, now) /\ VerifyStartsOn(r)) =>
          /\ resp'.op = "verify"
          /\ resp'.code = "EXPIRED"
          /\ procs' = procs
          /\ validations' = validations]_vars

\* a verify call on an expired row that had used up attempts has just been
\* answered EXPIRED
C29_Witness ==
  /\ resp.op = "verify"
  /\ resp.code = "EXPIRED"
  /\ \E r \in validations : /\ r.validationId = resp.id
                             /\ isExpired(r, now)
                             /\ r.attempts > 0
                             /\ resp.secret = r.token

\* C30: the incrementAttempts step of a verify call raises the stored
\* attempts of its row by exactly one, whatever the secret, and on a mismatch
\* the attemptsRemaining returned is maxAttempts minus the stored attempts
\* after the step.
C30_EveryGuessCountsOnce ==
  [][\A p \in Procs :
       (procs[p].pc = "vvt_incr" /\ procs'[p].pc # "vvt_incr") =>
         \A r \in validations :
           r.id = procs[p].row.id =>
             \E q \in validations' :
               /\ q.id = r.id
               /\ q.attempts = r.attempts + 1
               /\ resp'.code = "INVALID_TOKEN" =>
                    resp'.out = q.maxAttempts - q.attempts]_vars

\* the unused, unexpired password_reset tokens of a user
ValidResetTokens(rows, u, t) ==
  {r \in rows : /\ r.userId = u
                /\ r.type = "password_reset"
                /\ r.usedAt = NULL
                /\ ~isExpired(r, t)}

\* C31: a forgot-password request made while the user has an unused,
\* unexpired password_reset token reuses one and does not go on to create
\* another, and a password_reset token is created only when the user has none.
C31_ForgotReusesValidToken ==
  [][\A u \in Users :
       /\ (/\ resp' # resp /\ resp'.op = "forgot" /\ resp'.id = u
           /\ ValidResetTokens(validations, u, now) # {})
            => /\ validations' = validations
               /\ \E r \in ValidResetTokens(validations, u, now) : resp'.out = r.token
       /\ (\E p \in Procs : /\ procs[p].pc = "idle"
                            /\ procs'[p].pc = "forgot_create"
                            /\ procs'[p].id = u)
            => ValidResetTokens(validations, u, now) = {}
       /\ (\E q \in validations' \ validations :
              q.type = "password_reset" /\ q.userId = u)
            => ValidResetTokens(validations, u, now) = {}]_vars

\* C32: a login-resolve answered NOT_FOUND, INVALID_TYPE, EXPIRED,
\* ALREADY_USED or USER_NOT_FOUND changes no row (usedAt and attempts stay)
\* and signs no credential.
C32_RefusedResolveChangesNothing ==
  [][(/\ resp' # resp
      /\ resp'.op = "loginResolve"
      /\ resp'.code \in {"NOT_FOUND", "INVALID_TYPE", "EXPIRED", "ALREADY_USED",
                         "USER_NOT_FOUND"})
       => validations' = validations /\ creds' = creds /\ procs' = procs]_vars

\* a login-resolve on a row of another type has just been answered
\* INVALID_TYPE
C32_Witness ==
  /\ resp.op = "loginResolve"
  /\ resp.code = "INVALID_TYPE"
  /\ \E r \in validations : /\ r.validationId = resp.id
                             /\ r.type # "login_verification"
                             /\ r.usedAt = NULL
                             /\ r.attempts = 0

\* what a mailed link must carry to resolve to the row: the token column for
\* reset-password, the validationId for magic-link and magic-login
LinkTarget(r) == IF r.type = "password_reset" THEN r.token ELSE r.validationId

\* C33: the mail sent by a successful regeneration carries a link that
\* resolves to the new token, for each of the three kinds.
C33_RegenerationMailsLink ==
  [][(resp' # resp /\ resp'.op = "regenerate" /\ resp'.code = "SUCCESS") =>
       \A q \in validations' :
         q.validationId = resp'.out => LinkTarget(q) \in resp'.mail]_vars

\* C34: a registration that reports an error leaves no user row behind, and
\* every user row a registration stores comes with an email_verification
\* token stored by the same call.
C34_RegistrationAllOrNothing ==
  [][/\ (resp' # resp /\ resp'.op = "register" /\ resp'.code = "ERROR")
          => users' = users
     /\ \A u \in Users :
          (~users[u].exists /\ users'[u].exists) =>
             \E q \in validations' \ validations :
                q.userId = u /\ q.type = "email_verification"]_vars

\* C35: the isEmailVerified flag of an account turns true only in a GET
\* magic_link step that presents the validationId of a stored, unexpired,
\* unused email_verification token of that account.
C35_VerifiedOnlyByEmailToken ==
  [][\A u \in Users :
       (/\ users[u].exists /\ ~users[u].isEmailVerified
        /\ users'[u].exists /\ users'[u].isEmailVerified)
         => /\ resp'.op = "magicLink"
            /\ \E r \in validations :
                 /\ r.validationId = resp'.id
                 /\ r.type = "email_verification"
                 /\ r.userId = u
                 /\ ~isExpired(r, now)
                 /\ ~isUsed(r)]_vars

\* an account has just been verified through the link of its
\* email_verification token
C35_Witness ==
  /\ resp.op = "magicLink"
  /\ resp.code = "SUCCESS"
  /\ \E u \in Users : /\ users[u].exists
                      /\ users[u].isEmailVerified
                      /\ resp.out = u

\* the tokens of one kind a user could still redeem at time t
Redeemable(rows, u, type, t) ==
  {r \in rows : r.userId = u /\ r.type = type /\ ~isUsed(r) /\ ~isExpired(r, t)}

\* C36: once every regenerate request for an expired validationId has
\* finished, the user holds at most one unused, unexpired token of that kind.
C36_OneReplacementPerRegeneration ==
  (\A p \in Procs : procs[p].pc = "idle") =>
    \A u \in Users, type \in Types :
      Cardinality(Redeemable(validations, u, type, now)) <= 1

\* C37: once every site request has finished, the websiteCount of a client
\* is never below zero and has changed by exactly the number of its sites
\* created minus the number deleted.
C37_WebsiteCountTracksSites ==
  (\A p \in Procs : siteProcs[p].pc = "idle") =>
    \A c \in ClientIds :
      /\ clients[c].websiteCount >= 0
      /\ clients[c].websiteCount = created[c] - deleted[c]

====
